---- MODULE Spec2Model ----
(***************************************************************************)
(* Model of backend/merge_population_data.py: merge_and_convert reads a    *)
(* geometry CSV and a population CSV, derives a short join key, left-joins *)
(* the two tables, turns every joined row into a GeoJSON feature and       *)
(* writes the feature collection.                                          *)
(*                                                                         *)
(* Text that the program slices or strips (identifiers, codes) is a        *)
(* sequence of one-character strings.  An empty cell of a CSV file is the  *)
(* empty sequence; pandas reads it as NaN.                                 *)
(***************************************************************************)
EXTENDS Integers, Sequences, FiniteSets

\* ------------------------------------------------------------------ bounds
MaxGeomRows == 2
MaxPopRows == 2

\* --------------------------------------------------------- program constants
KeyWidth == 7
ProgressEvery == 100
ErrorLogLimit == 3

\* Python None and float NaN as they appear in a properties dict.
None == "None"
NaN == "NaN"
\* None in the place of a text made of characters (a code).
NoneText == <<"None">>
\* NaN as a missing count in a joined row.
NaNCount == -1
\* A count cell holding text that int() cannot parse.
BadCount == -2

Digits == {"0", "1", "2", "3", "4", "5", "6", "7", "8", "9"}
Whitespace == {" "}

Min(a, b) == IF a < b THEN a ELSE b

\* ------------------------------------------------------- text conversions
RECURSIVE LStrip(_)
LStrip(s) ==
    IF s # << >> /\ Head(s) \in Whitespace THEN LStrip(Tail(s)) ELSE s

RECURSIVE RStrip(_)
RStrip(s) ==
    IF s # << >> /\ s[Len(s)] \in Whitespace
    THEN RStrip(SubSeq(s, 1, Len(s) - 1))
    ELSE s

\* str.strip()
Strip(s) == LStrip(RStrip(s))

\* The C parser reads a cell as an integer when, leading and trailing
\* blanks apart, it is a non-empty run of digits.
IsIntLiteral(cell) ==
    LET t == Strip(cell)
    IN  t # << >> /\ \A i \in 1..Len(t) : t[i] \in Digits

RECURSIVE DropLeadingZeros(_)
DropLeadingZeros(t) ==
    IF Len(t) > 1 /\ Head(t) = "0" THEN DropLeadingZeros(Tail(t)) ELSE t

\* str(int(cell)): the decimal digits of the parsed number.
IntRepr(cell) == DropLeadingZeros(Strip(cell))

\* The dtype pandas.read_csv infers for a column from its cells.
ColumnDtype(cells) ==
    LET present == {i \in 1..Len(cells) : cells[i] # << >>}
    IN  IF \A i \in present : IsIntLiteral(cells[i])
        THEN IF present = 1..Len(cells) /\ present # {}
             THEN "int64"
             ELSE IF Len(cells) = 0 THEN "object" ELSE "float64"
        ELSE "object"

\* Series.astype(str) of one cell of a column read with the given dtype.
AsTypeStr(dtype, cell) ==
    IF cell = << >> THEN <<"n", "a", "n">>
    ELSE IF dtype = "int64" THEN IntRepr(cell)
    ELSE IF dtype = "float64" THEN IntRepr(cell) \o <<".", "0">>
    ELSE cell

\* .astype(str).str.strip() of a whole column.
NormalizeColumn(cells) ==
    [i \in 1..Len(cells) |-> Strip(AsTypeStr(ColumnDtype(cells), cells[i]))]

\* .str[:7], the slice taken from the wrong end
ShortKey_First(s) ==
    IF Len(s) <= KeyWidth THEN s ELSE SubSeq(s, 1, KeyWidth)

\* .str[-7:]
ShortKey(s) ==
    IF Len(s) <= KeyWidth THEN s ELSE SubSeq(s, Len(s) - KeyWidth + 1, Len(s))

\* ------------------------------------------------------------ input files
\* Identifier cells of the geometry file and code cells of the population
\* file, as written in the files.
IdA == <<"S", "K", "0", "1", "0", "1", "2", "0", "4", "5", "5", "2", "0">>
IdB == <<"S", "K", "0", "1", "0", "1", "2", "0", "4", "5", "5", "2", "1">>
CodeA == <<"2", "0", "4", "5", "5", "2", "0">>
CodeB == <<"2", "0", "4", "5", "5", "2", "1">>
DecoyCell == <<"x">>

\* The columns merge_and_convert looks at in the geometry table.
CodeCandidates == <<"kod_zsj", "ic_zsj", "zsj_kod", "code">>
geom_column == "geom"

\* What a WKT cell can hold: nothing, text that is no WKT, or a geometry.
\* POLYGON_FAR is a polygon outside the range of the projection, whose
\* transformed coordinates are not finite.
WktMissing == "missing"
WktGarbage == "garbage"

GeomRow(id, wkt, nz, no) ==
    [code |-> id, geom |-> wkt, nazov_zsj |-> nz, nazov_okre |-> no]

\* Rows offered to the geometry file of the main specification.
GeomRowChoices ==
    {GeomRow(IdA, "POLYGON", "Stare Mesto", NaN),
     GeomRow(IdA, "POLYGON", NaN, "Bratislava I"),
     GeomRow(IdA, WktMissing, NaN, NaN),
     GeomRow(IdA, WktGarbage, NaN, NaN),
     GeomRow(IdA, "LINESTRING", "Stare Mesto", "Bratislava I"),
     GeomRow(IdA, "POLYGON_FAR", "Stare Mesto", "Bratislava I"),
     GeomRow(IdB, "MULTIPOLYGON", "Nivy", "Bratislava II"),
     GeomRow(IdB, "POINT", NaN, NaN)}

PopRecord(c, kn, on, bn, zn, t, i, z, s) ==
    [code |-> c, kraj_nazov |-> kn, okres_nazov |-> on, obec_nazov |-> bn,
     zsj_nazov |-> zn, pop_trvaly_pobyt |-> t, pop_inde_sr |-> i,
     pop_zahranicie |-> z, pop_total |-> s]

\* Records offered to the population file of the main specification.
PopRecordChoices ==
    {PopRecord(CodeA, "Bratislavsky kraj", "Okres Bratislava I", "Obec Stare Mesto",
               "ZSJ Stare Mesto", 3, 1, 0, 4),
     PopRecord(CodeA, "Bratislavsky kraj", "Okres Bratislava I", "Obec Stare Mesto",
               NaN, 5, 2, 1, 8),
     PopRecord(CodeB, "Bratislavsky kraj", NaN, "Obec Ruzinov",
               NaN, 2, NaNCount, NaNCount, NaNCount),
     PopRecord(CodeB, "Bratislavsky kraj", "Okres Bratislava II", "Obec Ruzinov",
               "ZSJ Nivy", BadCount, 0, 0, 6)}

RECURSIVE SeqsUpTo(_, _)
SeqsUpTo(S, n) ==
    IF n = 0 THEN {<< >>}
    ELSE LET shorter == SeqsUpTo(S, n - 1)
         IN  shorter \cup {Append(q, x) : q \in {r \in shorter : Len(r) = n - 1}, x \in S}

GeomHeaderDefault == {"kod_zsj", "geom", "nazov_zsj", "nazov_okre"}
PopHeaderFull == {"zsj_kod", "pop_total"}

\* Headers other than the usual ones: the identifier under another name
\* (one of them the name the population code is renamed to), two candidate
\* columns, no identifier column, no geometry column, no fallback columns,
\* a column named as a population column is after the renaming.
GeomHeaderChoices ==
    {{"zsj_kod", "geom", "nazov_zsj", "nazov_okre"},
     {"kod_zsj", "geom", "okres_nazov"},
     {"kod_zsj", "geom", "okres_nazov", "nazov_okre"},
     {"ic_zsj", "code", "geom"},
     {"kod_zsj", "geom"},
     {"geom", "nazov_zsj"},
     {"kod_zsj", "nazov_zsj"}}
PopHeaderChoices == {PopHeaderFull, {"pop_total"}, {"zsj_kod"}}

VARIABLES
    pc,             \* position in merge_and_convert
    geometry_csv,   \* the geometry file: [header, rows]
    population_csv, \* the population file: [header, rows]
    output,         \* content of the output path: NoFile, OldFile or a document
    df_geom,        \* rows of the geometry table
    df_pop,         \* rows of the population table
    geom_code_col,  \* the identifier column chosen
    df_merged,      \* rows of the joined table
    matched,        \* joined rows with a total
    idx,            \* joined rows the loop has taken
    features,       \* features built
    feature_rows,   \* for each feature, the joined row it was built from
    errors,         \* rows skipped on error
    no_geom,        \* rows skipped for missing geometry
    stdout,         \* what was printed, as tags
    exit_code,      \* -1 while running, then the exit status of the process
    args,           \* the program run and its command-line arguments
    io,             \* the files read and opened for writing, in order
    data,           \* validate_coords: the document loaded
    with_coords,    \* validate_coords: features that have a geometry
    invalid,        \* validate_coords: the features reported
    cursor,         \* elements the current for loop has taken
    gdf_columns,    \* save_layer: the column names of the layer
    short,          \* save_layer: the candidate name of the current column
    counter,        \* save_layer: i, the number tried next
    used,           \* save_layer: the names given so far
    rename_map,     \* save_layer: the new name of every renamed column
    gdf,            \* count_healthcare_nearby: the elements found
    result,         \* what the function returned
    files           \* the files on disk, by path

\* the state of the auxiliary programs
aux_vars ==
    <<data, with_coords, invalid, cursor, gdf_columns, short, counter, used,
      rename_map, gdf, result, files>>

vars ==
    <<pc, geometry_csv, population_csv, output, df_geom, df_pop, geom_code_col,
      df_merged, matched, idx, features, feature_rows, errors, no_geom, stdout,
      exit_code, args, io, data, with_coords, invalid, cursor, gdf_columns,
      short, counter, used, rename_map, gdf, result, files>>

\* The command line of merge_population_data.py: the source EPSG code
\* (the target is always 4326).
DefaultSourceEpsg == 5514
DefaultTargetEpsg == 4326
EpsgChoices == {DefaultSourceEpsg, DefaultTargetEpsg, 3857}
MergeArgs(epsg) == [program |-> "merge_population_data", source_epsg |-> epsg]

EmptyFrame == [columns |-> {}, rows |-> << >>]
NoFile == [kind |-> "absent"]
OldFile == [kind |-> "old"]
Running == -1

\* No auxiliary program has run.
AuxIdle ==
    /\ data = None
    /\ with_coords = 0
    /\ invalid = << >>
    /\ cursor = 0
    /\ gdf_columns = << >>
    /\ short = << >>
    /\ counter = 0
    /\ used = {}
    /\ rename_map = << >>
    /\ gdf = << >>
    /\ result = None
    /\ files = << >>

InitRun ==
    /\ AuxIdle
    /\ pc = "load_geometry"
    /\ output \in {NoFile, OldFile}
    /\ df_geom = EmptyFrame
    /\ df_pop = EmptyFrame
    /\ geom_code_col = None
    /\ df_merged = << >>
    /\ matched = 0
    /\ idx = 0
    /\ features = << >>
    /\ feature_rows = << >>
    /\ errors = 0
    /\ no_geom = 0
    /\ stdout = << >>
    /\ exit_code = Running
    /\ io = << >>

\* The usual headers, every table of the bounded sizes.
InitTables ==
    /\ geometry_csv \in
         {[header |-> GeomHeaderDefault, rows |-> r, readable |-> TRUE] :
            r \in SeqsUpTo(GeomRowChoices, MaxGeomRows)}
    /\ population_csv \in
         {[header |-> PopHeaderFull, rows |-> r, readable |-> TRUE] :
            r \in SeqsUpTo(PopRecordChoices, MaxPopRows)}
    /\ args = MergeArgs(DefaultSourceEpsg)
    /\ InitRun

\* Other headers, over two fixed tables.
InitHeaders ==
    /\ geometry_csv \in
         {[header |-> h,
           rows |-> <<GeomRow(IdA, "POLYGON", NaN, "Bratislava I"),
                      GeomRow(IdB, "POLYGON", "Nivy", NaN)>>,
           readable |-> TRUE] :
            h \in GeomHeaderChoices \cup {GeomHeaderDefault}}
    /\ population_csv \in
         {[header |-> h,
           rows |-> <<PopRecord(CodeA, "Bratislavsky kraj", "Okres Bratislava I",
                                "Obec Stare Mesto", "ZSJ Stare Mesto", 3, 1, 0, 4)>>,
           readable |-> TRUE] :
            h \in PopHeaderChoices}
    /\ args = MergeArgs(DefaultSourceEpsg)
    /\ InitRun

\* Two tables that join, for the runs that vary something else.
SampleGeometryRows ==
    <<GeomRow(IdA, "POLYGON", "Stare Mesto", "Bratislava I"),
      GeomRow(IdA, "MULTIPOLYGON", NaN, NaN)>>
SamplePopulationRows ==
    <<PopRecord(CodeA, "Bratislavsky kraj", "Okres Bratislava I",
                "Obec Stare Mesto", "ZSJ Stare Mesto", 3, 1, 0, 4)>>

\* An input file that cannot be read: missing, not permitted, empty.
InitUnreadable ==
    /\ \E rg, rp \in BOOLEAN :
          /\ ~(rg /\ rp)
          /\ geometry_csv = [header |-> GeomHeaderDefault,
                             rows |-> SampleGeometryRows, readable |-> rg]
          /\ population_csv = [header |-> PopHeaderFull,
                               rows |-> SamplePopulationRows, readable |-> rp]
    /\ args = MergeArgs(DefaultSourceEpsg)
    /\ InitRun

\* --source-epsg given on the command line.
InitArgs ==
    /\ geometry_csv = [header |-> GeomHeaderDefault,
                       rows |-> SampleGeometryRows, readable |-> TRUE]
    /\ population_csv = [header |-> PopHeaderFull,
                         rows |-> SamplePopulationRows, readable |-> TRUE]
    /\ args \in {MergeArgs(e) : e \in EpsgChoices}
    /\ InitRun

Init == InitTables \/ InitHeaders \/ InitUnreadable \/ InitArgs

\* ------------------------------------------------------------- the steps
Emit(tag) == stdout' = Append(stdout, tag)

\* sys.exit(1) after a diagnostic.
Exit(tag) ==
    /\ pc' = "exit"
    /\ exit_code' = 1
    /\ Emit(tag)

\* An exception nobody catches: the interpreter prints a traceback and the
\* process ends with status 1.
Crash(exception) ==
    /\ pc' = "crash"
    /\ exit_code' = 1
    /\ Emit(exception)

\* the read error swallowed: the run goes on with an empty table
LoadGeometry_Continue ==
    /\ pc = "load_geometry"
    /\ io' = Append(io, "read geometry_csv")
    /\ df_geom' = IF geometry_csv.readable
                  THEN [columns |-> geometry_csv.header, rows |-> geometry_csv.rows]
                  ELSE EmptyFrame
    /\ pc' = "load_population"
    /\ Emit("geometries_loaded")
    /\ UNCHANGED <<geometry_csv, population_csv, output, df_pop, geom_code_col,
                   df_merged, matched, idx, features, feature_rows, errors,
                   no_geom, exit_code, args>>
    /\ UNCHANGED aux_vars

\* 1. pd.read_csv(geometry_csv)
LoadGeometry ==
    /\ pc = "load_geometry"
    /\ io' = Append(io, "read geometry_csv")
    /\ IF geometry_csv.readable
       THEN /\ df_geom' = [columns |-> geometry_csv.header, rows |-> geometry_csv.rows]
            /\ pc' = "load_population"
            /\ Emit("geometries_loaded")
            /\ UNCHANGED exit_code
       ELSE /\ Exit("read_error")
            /\ UNCHANGED df_geom
    /\ UNCHANGED <<geometry_csv, population_csv, output, df_pop, geom_code_col,
                   df_merged, matched, idx, features, feature_rows, errors,
                   no_geom, args>>
    /\ UNCHANGED aux_vars

\* 2. pd.read_csv(population_csv)
LoadPopulation ==
    /\ pc = "load_population"
    /\ io' = Append(io, "read population_csv")
    /\ IF population_csv.readable
       THEN /\ df_pop' = [columns |-> population_csv.header, rows |-> population_csv.rows]
            /\ pc' = "identify_columns"
            /\ Emit("records_loaded")
            /\ UNCHANGED exit_code
       ELSE /\ Exit("read_error")
            /\ UNCHANGED df_pop
    /\ UNCHANGED <<geometry_csv, population_csv, output, df_geom, geom_code_col,
                   df_merged, matched, idx, features, feature_rows, errors,
                   no_geom, args>>
    /\ UNCHANGED aux_vars

\* The first of the candidate columns the table has, None when it has none.
RECURSIVE FirstCandidate(_, _)
FirstCandidate(columns, i) ==
    IF i > Len(CodeCandidates) THEN None
    ELSE IF CodeCandidates[i] \in columns THEN CodeCandidates[i]
    ELSE FirstCandidate(columns, i + 1)

\* 3. the identifier column of the geometry table, the code column of the
\* population table
IdentifyColumns ==
    /\ pc = "identify_columns"
    /\ LET col == FirstCandidate(df_geom.columns, 1)
       IN  /\ geom_code_col' = col
           /\ IF col = None
              THEN Exit("no_geometry_code_column")
              ELSE IF "zsj_kod" \notin df_pop.columns
              THEN Exit("no_population_code_column")
              ELSE /\ pc' = "normalize"
                   /\ Emit("joining_on")
                   /\ UNCHANGED exit_code
    /\ UNCHANGED <<geometry_csv, population_csv, output, df_geom, df_pop,
                   df_merged, matched, idx, features, feature_rows, errors,
                   no_geom,
                   args, io>>
    /\ UNCHANGED aux_vars

\* The cell of a row in a column of the geometry table: the identifier is in
\* the first candidate column, any further candidate column holds other text.
CodeCell(frame, i, col) ==
    IF col = FirstCandidate(frame.columns, 1) THEN frame.rows[i].code ELSE DecoyCell

CodeColumn(frame, col) == [i \in 1..Len(frame.rows) |-> CodeCell(frame, i, col)]

\* 4., 5. rename the population columns, turn both code columns into stripped
\* strings, take the last characters of the geometry codes
Normalize ==
    /\ pc = "normalize"
    /\ LET gcodes == NormalizeColumn(CodeColumn(df_geom, geom_code_col))
           pcodes == NormalizeColumn([i \in 1..Len(df_pop.rows) |-> df_pop.rows[i].code])
       IN  /\ df_geom' =
                [columns |-> df_geom.columns \cup {"zsj_kod_short"},
                 rows |-> [i \in 1..Len(df_geom.rows) |->
                             [code |-> gcodes[i],
                              zsj_kod_short |-> ShortKey(gcodes[i]),
                              geom |-> df_geom.rows[i].geom,
                              nazov_zsj |-> df_geom.rows[i].nazov_zsj,
                              nazov_okre |-> df_geom.rows[i].nazov_okre]]]
           /\ df_pop' =
                [df_pop EXCEPT !.rows =
                   [i \in 1..Len(df_pop.rows) |->
                      [df_pop.rows[i] EXCEPT !.code = pcodes[i]]]]
    /\ pc' = "join"
    /\ Emit("code_examples")
    /\ UNCHANGED <<geometry_csv, population_csv, output, geom_code_col,
                   df_merged, matched, idx, features, feature_rows, errors,
                   no_geom, exit_code,
                   args, io>>
    /\ UNCHANGED aux_vars

\* A joined row: the geometry row g with the population record p, or with
\* NaN in every population column when p = 0.
NaNText == <<"NaN">>
JoinedRow(L, R, g, p) ==
    [g |-> g, p |-> p,
     zsj_kod_short |-> L[g].zsj_kod_short,
     geom |-> L[g].geom,
     nazov_zsj |-> L[g].nazov_zsj,
     nazov_okre |-> L[g].nazov_okre,
     zsj_kod |-> IF p = 0 THEN NaNText ELSE R[p].code,
     kraj_nazov |-> IF p = 0 THEN NaN ELSE R[p].kraj_nazov,
     okres_nazov |-> IF p = 0 THEN NaN ELSE R[p].okres_nazov,
     obec_nazov |-> IF p = 0 THEN NaN ELSE R[p].obec_nazov,
     zsj_nazov |-> IF p = 0 THEN NaN ELSE R[p].zsj_nazov,
     pop_trvaly_pobyt |-> IF p = 0 THEN NaNCount ELSE R[p].pop_trvaly_pobyt,
     pop_inde_sr |-> IF p = 0 THEN NaNCount ELSE R[p].pop_inde_sr,
     pop_zahranicie |-> IF p = 0 THEN NaNCount ELSE R[p].pop_zahranicie,
     pop_total |-> IF p = 0 THEN NaNCount ELSE R[p].pop_total]

\* The rows the geometry row g gives: one per population record with its
\* key, in the order of the population table, and one row when there is none.
RECURSIVE MatchesFrom(_, _, _, _)
MatchesFrom(L, R, g, p) ==
    IF p > Len(R) THEN << >>
    ELSE (IF R[p].code = L[g].zsj_kod_short THEN <<JoinedRow(L, R, g, p)>> ELSE << >>)
         \o MatchesFrom(L, R, g, p + 1)

\* a one-to-one join: a geometry row whose key an earlier row has stays
\* without record
RowsOf_OneToOne(L, R, g) ==
    LET m == MatchesFrom(L, R, g, 1)
    IN  IF m = << >> \/ \E h \in 1..(g - 1) : L[h].zsj_kod_short = L[g].zsj_kod_short
        THEN <<JoinedRow(L, R, g, 0)>> ELSE m

RowsOf(L, R, g) ==
    LET m == MatchesFrom(L, R, g, 1)
    IN  IF m = << >> THEN <<JoinedRow(L, R, g, 0)>> ELSE m

\* df_geom.merge(df_pop, left_on='zsj_kod_short', right_on='zsj_kod', how='left')
RECURSIVE LeftMerge(_, _, _)
\* the joined rows with the last geometry row first
LeftMerge_Reversed(L, R, g) ==
    IF g > Len(L) THEN << >> ELSE LeftMerge(L, R, g + 1) \o RowsOf(L, R, g)

LeftMerge(L, R, g) ==
    IF g > Len(L) THEN << >> ELSE RowsOf(L, R, g) \o LeftMerge(L, R, g + 1)

\* df_merged['pop_total'].notna().sum()
NotNaCount(rows) == Cardinality({i \in 1..Len(rows) : rows[i].pop_total # NaNCount})

\* 6. join, count the joined rows that have a total
Join ==
    /\ pc = "join"
    /\ LET merged == LeftMerge(df_geom.rows, df_pop.rows, 1)
       IN  /\ df_merged' = merged
           /\ IF "pop_total" \notin df_pop.columns
              THEN /\ Crash("KeyError")
                   /\ UNCHANGED matched
              ELSE /\ matched' = NotNaCount(merged)
                   /\ pc' = "guard"
                   /\ Emit("matched")
                   /\ UNCHANGED exit_code
    /\ UNCHANGED <<geometry_csv, population_csv, output, df_geom, df_pop,
                   geom_code_col, idx, features, feature_rows, errors, no_geom,
                   args, io>>
    /\ UNCHANGED aux_vars

\* the guard left out: the run goes on whatever the count
ZeroMatchGuard_NoAbort ==
    /\ pc = "guard"
    /\ pc' = "loop"
    /\ Emit("transforming")
    /\ UNCHANGED <<geometry_csv, population_csv, output, df_geom, df_pop,
                   geom_code_col, df_merged, matched, idx, features,
                   feature_rows, errors, no_geom, exit_code,
                   args, io>>
    /\ UNCHANGED aux_vars

\* if matched == 0: print the sample keys, sys.exit(1)
ZeroMatchGuard ==
    /\ pc = "guard"
    /\ IF matched = 0
       THEN Exit("sample_keys")
       ELSE /\ pc' = "loop"
            /\ Emit("transforming")
            /\ UNCHANGED exit_code
    /\ UNCHANGED <<geometry_csv, population_csv, output, df_geom, df_pop,
                   geom_code_col, df_merged, matched, idx, features,
                   feature_rows, errors, no_geom,
                   args, io>>
    /\ UNCHANGED aux_vars

\* ----------------------------------------------------- the per-row loop
\* wkt.loads followed by the transform to WGS84 and mapping(): the geometry
\* of the feature.  Coordinates outside the projection come back infinite.
\* (the coordinates are one sample per kind: a position is <<lon, lat>>, a
\* ring a sequence of positions, a polygon a sequence of rings)
SampleRing == <<<<17, 48>>, <<18, 48>>, <<18, 49>>, <<17, 48>>>>
Geometry(wkt) ==
    [type |-> CASE wkt = "POLYGON" -> "Polygon"
                [] wkt = "POLYGON_FAR" -> "Polygon"
                [] wkt = "MULTIPOLYGON" -> "MultiPolygon"
                [] wkt = "POINT" -> "Point"
                [] wkt = "LINESTRING" -> "LineString",
     finite |-> wkt # "POLYGON_FAR",
     coordinates |-> CASE wkt = "POLYGON" -> <<SampleRing>>
                       [] wkt = "POLYGON_FAR" -> <<SampleRing>>
                       [] wkt = "MULTIPOLYGON" -> << <<SampleRing>> >>
                       [] wkt = "POINT" -> SampleRing[1]
                       [] wkt = "LINESTRING" -> <<SampleRing[1], SampleRing[3]>>]

\* The merge renames a column that both tables have (zsj_kod_x, zsj_kod_y),
\* so row.get(col) finds nothing under the name of such a column.
Collides(col) == col \in df_geom.columns

\* str(v) if pd.notna(v) else None, for a name
TextOrNone(row, col) ==
    IF Collides(col) \/ row[col] = NaN THEN None ELSE row[col]

\* the same for the code
CodeOrNone(row) ==
    IF Collides("zsj_kod") \/ row.zsj_kod = NaNText THEN NoneText ELSE row.zsj_kod

\* int(v) if pd.notna(v) else 0
IntOrZero(v) == IF v = NaNCount THEN 0 ELSE v

CountColumns == {"pop_trvaly_pobyt", "pop_inde_sr", "pop_zahranicie", "pop_total"}

\* int() raises ValueError on text that is no number.
PropertiesRaise(row) == \E c \in CountColumns : row[c] = BadCount

\* the properties dict with every name column of the joined record, the
\* region included
Properties_WithRegion(row) ==
    [zsj_kod |-> CodeOrNone(row),
     zsj_nazov |-> TextOrNone(row, "zsj_nazov"),
     kraj_nazov |-> TextOrNone(row, "kraj_nazov"),
     okres_nazov |-> TextOrNone(row, "okres_nazov"),
     obec_nazov |-> TextOrNone(row, "obec_nazov"),
     pop_trvaly_pobyt |-> IntOrZero(row.pop_trvaly_pobyt),
     pop_inde_sr |-> IntOrZero(row.pop_inde_sr),
     pop_zahranicie |-> IntOrZero(row.pop_zahranicie),
     pop_total |-> IntOrZero(row.pop_total)]

\* the properties dict with the district taken from the municipality column
Properties_DistrictFromMunicipality(row) ==
    [zsj_kod |-> CodeOrNone(row),
     zsj_nazov |-> TextOrNone(row, "zsj_nazov"),
     okres_nazov |-> TextOrNone(row, "obec_nazov"),
     obec_nazov |-> TextOrNone(row, "obec_nazov"),
     pop_trvaly_pobyt |-> IntOrZero(row.pop_trvaly_pobyt),
     pop_inde_sr |-> IntOrZero(row.pop_inde_sr),
     pop_zahranicie |-> IntOrZero(row.pop_zahranicie),
     pop_total |-> IntOrZero(row.pop_total)]

\* the properties dict with the names of the geometry table preferred
Properties_GeometryNameFirst(row) ==
    LET zn == TextOrNone(row, "zsj_nazov")
        on == TextOrNone(row, "okres_nazov")
    IN  [zsj_kod |-> CodeOrNone(row),
         zsj_nazov |-> IF "nazov_zsj" \in df_geom.columns /\ row.nazov_zsj # NaN
                       THEN row.nazov_zsj ELSE zn,
         okres_nazov |-> IF "nazov_okre" \in df_geom.columns /\ row.nazov_okre # NaN
                         THEN row.nazov_okre ELSE on,
         obec_nazov |-> TextOrNone(row, "obec_nazov"),
         pop_trvaly_pobyt |-> IntOrZero(row.pop_trvaly_pobyt),
         pop_inde_sr |-> IntOrZero(row.pop_inde_sr),
         pop_zahranicie |-> IntOrZero(row.pop_zahranicie),
         pop_total |-> IntOrZero(row.pop_total)]

\* The properties dict, the fallback to the names of the geometry table
\* included.
Properties(row) ==
    LET zn == TextOrNone(row, "zsj_nazov")
        on == TextOrNone(row, "okres_nazov")
    IN  [zsj_kod |-> CodeOrNone(row),
         zsj_nazov |-> IF zn = None /\ "nazov_zsj" \in df_geom.columns
                       THEN row.nazov_zsj ELSE zn,
         okres_nazov |-> IF on = None /\ "nazov_okre" \in df_geom.columns
                         THEN row.nazov_okre ELSE on,
         obec_nazov |-> TextOrNone(row, "obec_nazov"),
         pop_trvaly_pobyt |-> IntOrZero(row.pop_trvaly_pobyt),
         pop_inde_sr |-> IntOrZero(row.pop_inde_sr),
         pop_zahranicie |-> IntOrZero(row.pop_zahranicie),
         pop_total |-> IntOrZero(row.pop_total)]

\* What happens to a joined row: "no_geom", "error" or "feature".
RowOutcome(row) ==
    IF geom_column \notin df_geom.columns THEN "error"
    ELSE IF row.geom = WktMissing THEN "no_geom"
    ELSE IF row.geom = WktGarbage THEN "error"
    ELSE IF PropertiesRaise(row) THEN "error"
    ELSE "feature"

\* 8. one pass of the loop over the joined rows
ProcessRow ==
    /\ pc = "loop"
    /\ idx < Len(df_merged)
    /\ LET row == df_merged[idx + 1]
           outcome == RowOutcome(row)
       IN  /\ idx' = idx + 1
           /\ CASE outcome = "no_geom" ->
                     /\ no_geom' = no_geom + 1
                     /\ UNCHANGED <<features, feature_rows, errors, stdout>>
                [] outcome = "error" ->
                     /\ errors' = errors + 1
                     /\ IF errors + 1 <= ErrorLogLimit
                        THEN Emit("row_error") ELSE UNCHANGED stdout
                     /\ UNCHANGED <<features, feature_rows, no_geom>>
                [] outcome = "feature" ->
                     /\ features' =
                          Append(features,
                                 [type |-> "Feature",
                                  geometry |-> Geometry(row.geom),
                                  properties |-> Properties(row)])
                     /\ feature_rows' = Append(feature_rows, idx + 1)
                     /\ IF (idx + 1) % ProgressEvery = 0
                        THEN Emit("progress") ELSE UNCHANGED stdout
                     /\ UNCHANGED <<errors, no_geom>>
    /\ UNCHANGED <<pc, geometry_csv, population_csv, output, df_geom, df_pop,
                   geom_code_col, df_merged, matched, exit_code,
                   args, io>>
    /\ UNCHANGED aux_vars

\* the summary and the write reached from inside the loop, rows left over
Summary_Early ==
    /\ pc = "loop"
    /\ IF features # << >> /\ features[1].geometry.type = "LineString"
       THEN Crash("TypeError")
       ELSE /\ pc' = "write"
            /\ Emit("summary")
            /\ UNCHANGED exit_code
    /\ UNCHANGED <<geometry_csv, population_csv, output, df_geom, df_pop,
                   geom_code_col, df_merged, matched, idx, features,
                   feature_rows, errors, no_geom,
                   args, io>>
    /\ UNCHANGED aux_vars

\* The counts after the loop and the sample of the first feature: the
\* sample coordinate of a MultiPolygon, of a Polygon, and of anything else
\* the coordinates themselves, formatted as two numbers.
Summary ==
    /\ pc = "loop"
    /\ idx = Len(df_merged)
    /\ IF features # << >> /\ features[1].geometry.type = "LineString"
       THEN Crash("TypeError")
       ELSE /\ pc' = "write"
            /\ Emit("summary")
            /\ UNCHANGED exit_code
    /\ UNCHANGED <<geometry_csv, population_csv, output, df_geom, df_pop,
                   geom_code_col, df_merged, matched, idx, features,
                   feature_rows, errors, no_geom,
                   args, io>>
    /\ UNCHANGED aux_vars

\* A value json.dumps(allow_nan=False) refuses.
HasNaN(feature) ==
    \/ ~feature.geometry.finite
    \/ \E k \in {"zsj_nazov", "okres_nazov", "obec_nazov"} : feature.properties[k] = NaN

CrsName == "urn:ogc:def:crs:EPSG::4326"

\* json.dumps with allow_nan left at its default: NaN is written
Write_AllowNaN ==
    /\ pc = "write"
    /\ output' = [kind |-> "geojson", crs |-> CrsName, features |-> features]
    /\ io' = Append(io, "write output")
    /\ pc' = "statistics"
    /\ Emit("saving")
    /\ UNCHANGED <<geometry_csv, population_csv, df_geom, df_pop, geom_code_col,
                   df_merged, matched, idx, features, feature_rows, errors,
                   no_geom, exit_code, args>>
    /\ UNCHANGED aux_vars

\* the document stamped with what the run found in place of the output
Write_Stamped ==
    /\ pc = "write"
    /\ IF \E i \in 1..Len(features) : HasNaN(features[i])
       THEN /\ Crash("ValueError")
            /\ UNCHANGED <<output, io>>
       ELSE /\ output' = [kind |-> "geojson", crs |-> CrsName, features |-> features,
                          replaced |-> output.kind]
            /\ io' = Append(io, "write output")
            /\ pc' = "statistics"
            /\ Emit("saving")
            /\ UNCHANGED exit_code
    /\ UNCHANGED <<geometry_csv, population_csv, df_geom, df_pop, geom_code_col,
                   df_merged, matched, idx, features, feature_rows, errors,
                   no_geom, args>>
    /\ UNCHANGED aux_vars

\* 9., 10. build the collection, serialize it, then open the file and write
Write ==
    /\ pc = "write"
    /\ IF \E i \in 1..Len(features) : HasNaN(features[i])
       THEN /\ Crash("ValueError")
            /\ UNCHANGED <<output, io>>
       ELSE /\ output' = [kind |-> "geojson", crs |-> CrsName, features |-> features]
            /\ io' = Append(io, "write output")
            /\ pc' = "statistics"
            /\ Emit("saving")
            /\ UNCHANGED exit_code
    /\ UNCHANGED <<geometry_csv, population_csv, df_geom, df_pop, geom_code_col,
                   df_merged, matched, idx, features, feature_rows, errors,
                   no_geom, args>>
    /\ UNCHANGED aux_vars

\* 11. the statistics, then the function returns
Statistics ==
    /\ pc = "statistics"
    /\ pc' = "done"
    /\ exit_code' = 0
    /\ Emit("statistics")
    /\ UNCHANGED <<geometry_csv, population_csv, output, df_geom, df_pop,
                   geom_code_col, df_merged, matched, idx, features,
                   feature_rows, errors, no_geom,
                   args, io>>
    /\ UNCHANGED aux_vars

Next ==
    \/ LoadGeometry
    \/ LoadPopulation
    \/ IdentifyColumns
    \/ Normalize
    \/ Join
    \/ ZeroMatchGuard
    \/ ProcessRow
    \/ Summary
    \/ Write
    \/ Statistics

Spec == Init /\ [][Next]_vars

\* ------------------------------------------------ the program run again
\* The program is started again on the same files with the same arguments;
\* what the earlier run wrote is still there.
Rerun ==
    /\ pc \in {"done", "exit", "crash"}
    /\ pc' = "load_geometry"
    /\ df_geom' = EmptyFrame
    /\ df_pop' = EmptyFrame
    /\ geom_code_col' = None
    /\ df_merged' = << >>
    /\ matched' = 0
    /\ idx' = 0
    /\ features' = << >>
    /\ feature_rows' = << >>
    /\ errors' = 0
    /\ no_geom' = 0
    /\ stdout' = << >>
    /\ exit_code' = Running
    /\ io' = << >>
    /\ UNCHANGED <<geometry_csv, population_csv, output, args>>
    /\ UNCHANGED aux_vars

NextTwice == Next \/ Rerun
SpecTwice == Init /\ [][NextTwice]_vars

\* ------------------------------------------------- tables of many rows
\* Tables long enough for the progress line: every row is a polygon of the
\* one population record, but for the rows at the multiples of the batch.
MaxProgressRows == 100
BatchRow == GeomRow(IdA, "POLYGON", "Stare Mesto", "Bratislava I")
BatchRowChoices ==
    {BatchRow,
     GeomRow(IdA, WktMissing, "Stare Mesto", "Bratislava I"),
     GeomRow(IdA, WktGarbage, "Stare Mesto", "Bratislava I")}
ProgressTables ==
    {[i \in 1..MaxProgressRows |->
        IF i % ProgressEvery = 0 THEN f[i \div ProgressEvery] ELSE BatchRow] :
       f \in [1..(MaxProgressRows \div ProgressEvery) -> BatchRowChoices]}

InitProgress ==
    /\ geometry_csv \in
         {[header |-> GeomHeaderDefault, rows |-> r, readable |-> TRUE] :
            r \in ProgressTables}
    /\ population_csv = [header |-> PopHeaderFull,
                         rows |-> SamplePopulationRows, readable |-> TRUE]
    /\ args = MergeArgs(DefaultSourceEpsg)
    /\ InitRun

SpecProgress == InitProgress /\ [][Next]_vars

\* ---------------------------------------------- tables of three rows
\* Tables with room for a skipped row between two features, over
\* population tables with the records in either order and a repeated code.
MaxOrderRows == 3
OrderRowChoices ==
    {GeomRow(IdA, "POLYGON", "Stare Mesto", "Bratislava I"),
     GeomRow(IdB, "MULTIPOLYGON", "Nivy", "Bratislava II"),
     GeomRow(IdB, "POINT", "Nivy", "Bratislava II"),
     GeomRow(IdA, WktMissing, "Stare Mesto", "Bratislava I"),
     GeomRow(IdB, WktGarbage, "Nivy", "Bratislava II")}
OrderRecordA == SamplePopulationRows[1]
OrderRecordB ==
    PopRecord(CodeB, "Bratislavsky kraj", "Okres Bratislava II", "Obec Ruzinov",
              "ZSJ Nivy", 4, 1, 1, 6)
OrderPopulationChoices ==
    {<<OrderRecordA, OrderRecordB>>,
     <<OrderRecordB, OrderRecordA>>,
     <<OrderRecordB, OrderRecordA, OrderRecordB>>}

InitOrder ==
    /\ geometry_csv \in
         {[header |-> GeomHeaderDefault, rows |-> r, readable |-> TRUE] :
            r \in SeqsUpTo(OrderRowChoices, MaxOrderRows)}
    /\ population_csv \in
         {[header |-> PopHeaderFull, rows |-> r, readable |-> TRUE] :
            r \in OrderPopulationChoices}
    /\ args = MergeArgs(DefaultSourceEpsg)
    /\ InitRun

SpecOrder == InitOrder /\ [][Next]_vars

\* --------------------------------------- the key normalizer on its own
MaxKeyRows == 2

PaddedIdA == <<" ">> \o IdA \o <<" ", " ">>
ShortId == <<"4", "5">>
SevenChars == <<"A", "B", "4", "5", "5", "2", "0">>
LeadingZeroId == <<"0", "0", "4", "5", "5", "2", "0">>
EightDigits == <<"1", "2", "0", "4", "5", "5", "2", "0">>
BlankCell == <<" ">>
IdZero == <<"S", "K", "0", "1", "0", "1">> \o LeadingZeroId

\* Identifier cells of every shape: long and padded, short, exactly as wide
\* as the key, made of digits only, empty, blank.
KeyIdCells ==
    {IdA, PaddedIdA, ShortId, SevenChars, CodeA, LeadingZeroId, EightDigits,
     << >>, BlankCell, IdZero}

\* Population code cells: a plain code, one that begins with 0, a padded
\* one, an empty cell.
MaxKeyPopRows == 2
PaddedCodeA == <<" ">> \o CodeA \o <<" ">>
KeyCodeCells == {CodeA, LeadingZeroId, PaddedCodeA, << >>}
KeyRecord(c) ==
    PopRecord(c, "Bratislavsky kraj", "Okres Bratislava I", "Obec Stare Mesto",
              "ZSJ Stare Mesto", 3, 1, 0, 4)

InitKey ==
    /\ geometry_csv \in
         {[header |-> GeomHeaderDefault, rows |-> r, readable |-> TRUE] :
            r \in SeqsUpTo({GeomRow(id, "POLYGON", NaN, NaN) : id \in KeyIdCells},
                           MaxKeyRows)}
    /\ population_csv \in
         {[header |-> PopHeaderFull, rows |-> r, readable |-> TRUE] :
            r \in SeqsUpTo({KeyRecord(c) : c \in KeyCodeCells}, MaxKeyPopRows)}
    /\ args = MergeArgs(DefaultSourceEpsg)
    /\ InitRun

\* The run up to the join.
NextKey ==
    \/ LoadGeometry
    \/ LoadPopulation
    \/ IdentifyColumns
    \/ Normalize
    \/ Join

SpecKey == InitKey /\ [][NextKey]_vars

\* ------------------------------------------------------- csv_to_geojson
\* sidelnejednotky_geojson_parser.py: csv_to_geojson reads one CSV (held in
\* geometry_csv), turns every row into a feature with all the columns except
\* the geometry as properties, and writes the collection tagged with the
\* target EPSG code.
MaxCsvRows == 2
CsvErrorLogLimit == 5

CsvArgs(source, target) ==
    [program |-> "csv_to_geojson", source_epsg |-> source, target_epsg |-> target]

NoPopulationFile == [header |-> {}, rows |-> << >>, readable |-> TRUE]

CsvHeaderChoices ==
    {GeomHeaderDefault, {"kod_zsj", "geom"}, {"kod_zsj", "nazov_zsj"}}

InitCsv ==
    /\ \/ /\ geometry_csv \in
               {[header |-> GeomHeaderDefault, rows |-> r, readable |-> TRUE] :
                  r \in SeqsUpTo(GeomRowChoices, MaxCsvRows)}
          /\ args \in {CsvArgs(e, t) : e \in EpsgChoices, t \in EpsgChoices}
       \/ /\ geometry_csv \in
               {[header |-> h, rows |-> SampleGeometryRows, readable |-> b] :
                  h \in CsvHeaderChoices, b \in BOOLEAN}
          /\ args = CsvArgs(DefaultSourceEpsg, DefaultTargetEpsg)
    /\ population_csv = NoPopulationFile
    /\ AuxIdle
    /\ pc = "csv_load"
    /\ output \in {NoFile, OldFile}
    /\ df_geom = EmptyFrame
    /\ df_pop = EmptyFrame
    /\ geom_code_col = None
    /\ df_merged = << >>
    /\ matched = 0
    /\ idx = 0
    /\ features = << >>
    /\ feature_rows = << >>
    /\ errors = 0
    /\ no_geom = 0
    /\ stdout = << >>
    /\ exit_code = Running
    /\ io = << >>

\* pd.read_csv(input_csv)
CsvLoad ==
    /\ pc = "csv_load"
    /\ io' = Append(io, "read input_csv")
    /\ IF geometry_csv.readable
       THEN /\ df_geom' = [columns |-> geometry_csv.header, rows |-> geometry_csv.rows]
            /\ pc' = "csv_check_column"
            /\ Emit("rows_loaded")
            /\ UNCHANGED exit_code
       ELSE /\ Exit("read_error")
            /\ UNCHANGED df_geom
    /\ UNCHANGED <<geometry_csv, population_csv, output, df_pop, geom_code_col,
                   df_merged, matched, idx, features, feature_rows, errors,
                   no_geom, args>>
    /\ UNCHANGED aux_vars

\* the geometry column must be there; then the transformer is set up
CsvCheckColumn ==
    /\ pc = "csv_check_column"
    /\ IF geom_column \notin df_geom.columns
       THEN Exit("no_geometry_column")
       ELSE /\ pc' = "csv_loop"
            /\ Emit("transforming")
            /\ UNCHANGED exit_code
    /\ UNCHANGED <<geometry_csv, population_csv, output, df_geom, df_pop,
                   geom_code_col, df_merged, matched, idx, features,
                   feature_rows, errors, no_geom, args, io>>
    /\ UNCHANGED aux_vars

\* the value of a cell with nothing done about a missing one
CsvValue_KeepNaN(frame, i, col) ==
    IF col \in {"nazov_zsj", "nazov_okre"}
    THEN frame.rows[i][col]
    ELSE LET cells == CodeColumn(frame, col)
         IN  IF cells[i] = << >> THEN NaNText
             ELSE AsTypeStr(ColumnDtype(cells), cells[i])

\* The value of a cell as the row holds it: None for a missing one, a number
\* as its digits.
CsvValue(frame, i, col) ==
    IF col \in {"nazov_zsj", "nazov_okre"}
    THEN (IF frame.rows[i][col] = NaN THEN None ELSE frame.rows[i][col])
    ELSE LET cells == CodeColumn(frame, col)
         IN  IF cells[i] = << >> THEN NoneText
             ELSE AsTypeStr(ColumnDtype(cells), cells[i])

\* properties: every column but the geometry
CsvProperties(frame, i) ==
    [col \in frame.columns \ {geom_column} |-> CsvValue(frame, i, col)]

\* one pass of the loop over the rows
CsvProcessRow ==
    /\ pc = "csv_loop"
    /\ idx < Len(df_geom.rows)
    /\ LET row == df_geom.rows[idx + 1]
       IN  /\ idx' = idx + 1
           /\ IF row.geom = WktMissing
              THEN /\ errors' = errors + 1
                   /\ UNCHANGED <<features, feature_rows, stdout>>
              ELSE IF row.geom = WktGarbage
              THEN /\ errors' = errors + 1
                   /\ IF errors + 1 <= CsvErrorLogLimit
                      THEN Emit("row_error") ELSE UNCHANGED stdout
                   /\ UNCHANGED <<features, feature_rows>>
              ELSE /\ features' =
                        Append(features,
                               [type |-> "Feature",
                                geometry |-> Geometry(row.geom),
                                properties |-> CsvProperties(df_geom, idx + 1)])
                   /\ feature_rows' = Append(feature_rows, idx + 1)
                   /\ IF (idx + 1) % ProgressEvery = 0
                      THEN Emit("progress") ELSE UNCHANGED stdout
                   /\ UNCHANGED errors
    /\ UNCHANGED <<pc, geometry_csv, population_csv, output, df_geom, df_pop,
                   geom_code_col, df_merged, matched, no_geom, exit_code,
                   args, io>>
    /\ UNCHANGED aux_vars

\* the counts and the sample coordinate of the first feature
CsvSummary ==
    /\ pc = "csv_loop"
    /\ idx = Len(df_geom.rows)
    /\ IF features # << >> /\ features[1].geometry.type = "LineString"
       THEN Crash("TypeError")
       ELSE /\ pc' = "csv_write"
            /\ Emit("summary")
            /\ UNCHANGED exit_code
    /\ UNCHANGED <<geometry_csv, population_csv, output, df_geom, df_pop,
                   geom_code_col, df_merged, matched, idx, features,
                   feature_rows, errors, no_geom, args, io>>
    /\ UNCHANGED aux_vars

\* the tag always names WGS84
CsvCrsName_Fixed(epsg) == "urn:ogc:def:crs:EPSG::4326"

\* f"urn:ogc:def:crs:EPSG::{target_epsg}"
CsvCrsName(epsg) ==
    CASE epsg = 4326 -> "urn:ogc:def:crs:EPSG::4326"
      [] epsg = 3857 -> "urn:ogc:def:crs:EPSG::3857"
      [] epsg = 5514 -> "urn:ogc:def:crs:EPSG::5514"

\* build the collection, open the file, json.dump into it, return
CsvWrite ==
    /\ pc = "csv_write"
    /\ output' = [kind |-> "geojson", crs |-> CsvCrsName(args.target_epsg),
                  features |-> features]
    /\ io' = Append(io, "write output")
    /\ pc' = "csv_done"
    /\ exit_code' = 0
    /\ Emit("saved")
    /\ UNCHANGED <<geometry_csv, population_csv, df_geom, df_pop, geom_code_col,
                   df_merged, matched, idx, features, feature_rows, errors,
                   no_geom, args>>
    /\ UNCHANGED aux_vars

NextCsv ==
    \/ CsvLoad
    \/ CsvCheckColumn
    \/ CsvProcessRow
    \/ CsvSummary
    \/ CsvWrite

\* Both converters, merge_and_convert over the sample tables with every
\* source EPSG.
InitConv == InitArgs \/ InitCsv
NextConv == Next \/ NextCsv
SpecConv == InitConv /\ [][NextConv]_vars

\* ------------------------------------------------------ validate_coords
\* validate_coords.py: the script loads a feature collection (held in
\* output), takes the coordinates of every feature that has a geometry as a
\* longitude and a latitude, and reports those out of range.
MaxValFeatures == 2
LatLimit == 90
LonLimit == 180

ValArgs == [program |-> "validate_coords"]
NullGeometry == [type |-> "null"]
PointFeature(lon, lat, props) ==
    [type |-> "Feature",
     geometry |-> [type |-> "Point", coordinates |-> <<lon, lat>>],
     properties |-> props]
Named == [zsj_nazov |-> "Stare Mesto"]
Unnamed == [pop_total |-> 4]

\* Features without geometry, points in and on the edge of the ranges, and
\* points past each of the four limits.
ValFeatureChoices ==
    {[type |-> "Feature", geometry |-> NullGeometry, properties |-> Named],
     PointFeature(17, 48, Named),
     PointFeature(LonLimit, LatLimit, Named),
     PointFeature(-LonLimit, -LatLimit, Unnamed),
     PointFeature(LonLimit + 1, 48, Named),
     PointFeature(-LonLimit - 1, 48, Named),
     PointFeature(17, LatLimit + 1, Unnamed),
     PointFeature(17, -LatLimit - 1, Named)}

InitVal ==
    /\ output \in {[kind |-> "geojson", crs |-> CrsName, features |-> f] :
                     f \in SeqsUpTo(ValFeatureChoices, MaxValFeatures)}
    /\ args = ValArgs
    /\ pc = "val_load"
    /\ geometry_csv = NoPopulationFile
    /\ population_csv = NoPopulationFile
    /\ df_geom = EmptyFrame
    /\ df_pop = EmptyFrame
    /\ geom_code_col = None
    /\ df_merged = << >>
    /\ matched = 0
    /\ idx = 0
    /\ features = << >>
    /\ feature_rows = << >>
    /\ errors = 0
    /\ no_geom = 0
    /\ stdout = << >>
    /\ exit_code = Running
    /\ io = << >>
    /\ AuxIdle

\* What the validator leaves alone.
val_frame ==
    <<geometry_csv, population_csv, output, df_geom, df_pop, geom_code_col,
      df_merged, matched, idx, features, feature_rows, errors, no_geom, io,
      gdf_columns, short, counter, used, rename_map, gdf, result, files>>

\* The validator is started on the file merge_and_convert has written.
RunValidator ==
    /\ pc = "done"
    /\ args.program = "merge_population_data"
    /\ pc' = "val_load"
    /\ args' = ValArgs
    /\ stdout' = << >>
    /\ exit_code' = Running
    /\ UNCHANGED <<data, with_coords, invalid, cursor>>
    /\ UNCHANGED val_frame

\* json.load, the banner, the counters set to zero
ValLoad ==
    /\ pc = "val_load"
    /\ IF output.kind = "geojson"
       THEN /\ data' = output
            /\ pc' = "val_loop"
            /\ Emit("checking")
            /\ UNCHANGED exit_code
       ELSE /\ Crash(IF output = NoFile THEN "FileNotFoundError" ELSE "JSONDecodeError")
            /\ UNCHANGED data
    /\ with_coords' = 0
    /\ invalid' = << >>
    /\ cursor' = 0
    /\ UNCHANGED args
    /\ UNCHANGED val_frame

\* the ranges tested with longitude and latitude taken the other way round
ValOutcome_Swapped(feature) ==
    IF feature.geometry.type = "null" THEN "skip"
    ELSE IF Len(feature.geometry.coordinates) # 2 THEN "ValueError"
    ELSE IF feature.geometry.type # "Point" THEN "TypeError"
    ELSE LET lat == feature.geometry.coordinates[1]
             lon == feature.geometry.coordinates[2]
         IN  IF ~(-LatLimit <= lat /\ lat <= LatLimit
                  /\ -LonLimit <= lon /\ lon <= LonLimit)
             THEN "invalid" ELSE "valid"

\* What the loop body does with a feature: the geometry is tested for
\* truth, its coordinates are unpacked into two names, and these are
\* compared with the limits as numbers.
ValOutcome(feature) ==
    IF feature.geometry.type = "null" THEN "skip"
    ELSE IF Len(feature.geometry.coordinates) # 2 THEN "ValueError"
    ELSE IF feature.geometry.type # "Point" THEN "TypeError"
    ELSE LET lon == feature.geometry.coordinates[1]
             lat == feature.geometry.coordinates[2]
         IN  IF ~(-LatLimit <= lat /\ lat <= LatLimit
                  /\ -LonLimit <= lon /\ lon <= LonLimit)
             THEN "invalid" ELSE "valid"

\* feature['properties'].get('zsj_nazov', 'Unknown')
ValName(feature) ==
    IF "zsj_nazov" \in DOMAIN feature.properties
    THEN feature.properties.zsj_nazov ELSE "Unknown"

\* one pass of the loop over the features
ValCheck ==
    /\ pc = "val_loop"
    /\ cursor < Len(data.features)
    /\ LET feature == data.features[cursor + 1]
           outcome == ValOutcome(feature)
       IN  /\ cursor' = cursor + 1
           /\ with_coords' = IF outcome = "skip" THEN with_coords ELSE with_coords + 1
           /\ invalid' = IF outcome = "invalid"
                         THEN Append(invalid,
                                     [name |-> ValName(feature),
                                      lat |-> feature.geometry.coordinates[2],
                                      lon |-> feature.geometry.coordinates[1]])
                         ELSE invalid
           /\ IF outcome \in {"ValueError", "TypeError"}
              THEN Crash(outcome)
              ELSE UNCHANGED <<pc, exit_code, stdout>>
    /\ UNCHANGED <<data, args>>
    /\ UNCHANGED val_frame

\* the totals, then the invalid entries or the all-valid message with the
\* ranges of the coordinates found
ValReport ==
    /\ pc = "val_loop"
    /\ cursor = Len(data.features)
    /\ IF invalid # << >>
       THEN /\ stdout' = stdout \o <<"totals", "invalid_entries">>
            /\ pc' = "val_done"
            /\ exit_code' = 0
       ELSE IF with_coords = 0
       THEN /\ stdout' = stdout \o <<"totals", "all_valid", "ValueError">>
            /\ pc' = "crash"
            /\ exit_code' = 1
       ELSE /\ stdout' = stdout \o <<"totals", "all_valid", "ranges">>
            /\ pc' = "val_done"
            /\ exit_code' = 0
    /\ UNCHANGED <<data, with_coords, invalid, cursor, args>>
    /\ UNCHANGED val_frame

NextVal ==
    \/ ValLoad
    \/ ValCheck
    \/ ValReport

SpecVal == InitVal /\ [][NextVal]_vars

\* merge_and_convert, then the validator on what it wrote.
NextMergeVal == Next \/ RunValidator \/ NextVal
SpecMergeVal == Init /\ [][NextMergeVal]_vars

\* ------------------------------------------------- the files by path
\* The runs seen from the file system: paths are sequences of characters,
\* files maps every path that exists to what the file holds.
\* str.replace(old, new): every occurrence, from the left, without overlap
RECURSIVE Replace(_, _, _)
Replace(text, old, new) ==
    IF Len(text) < Len(old) THEN text
    ELSE IF SubSeq(text, 1, Len(old)) = old
    THEN new \o Replace(SubSeq(text, Len(old) + 1, Len(text)), old, new)
    ELSE <<text[1]>> \o Replace(Tail(text), old, new)

DotCsv == <<".", "c", "s", "v">>
WithPopulation ==
    <<"_", "w", "i", "t", "h", "_", "p", "o", "p", "u", "l", "a", "t", "i", "o", "n",
      ".", "g", "e", "o", "j", "s", "o", "n">>

\* Geometry paths with the extension, with it in capitals, with another
\* one, with none, and with .csv in the middle.
GeometryPathChoices ==
    {<<"g">> \o DotCsv,
     <<"g", ".", "C", "S", "V">>,
     <<"g", ".", "t", "x", "t">>,
     <<"g">>,
     <<"d">> \o DotCsv \o <<"/", "g">>}
PopulationPathChoices ==
    {<<"p">> \o DotCsv, <<"p">>, <<"g">> \o WithPopulation}
OutputArgChoices == {NoneText, <<"o", ".", "g", "e", "o", "j", "s", "o", "n">>}

MergePathArgs(g, p, o) ==
    [program |-> "merge_population_data", source_epsg |-> DefaultSourceEpsg,
     geometry_csv |-> g, population_csv |-> p, output |-> o]

\* No table is loaded.
TablesIdle ==
    /\ geometry_csv = NoPopulationFile
    /\ population_csv = NoPopulationFile
    /\ output = NoFile
    /\ df_geom = EmptyFrame
    /\ df_pop = EmptyFrame
    /\ geom_code_col = None
    /\ df_merged = << >>
    /\ matched = 0
    /\ idx = 0
    /\ features = << >>
    /\ feature_rows = << >>
    /\ errors = 0
    /\ no_geom = 0

table_vars ==
    <<geometry_csv, population_csv, output, df_geom, df_pop, geom_code_col,
      df_merged, matched, idx, features, feature_rows, errors, no_geom>>

\* what the runs by path leave alone
path_frame ==
    <<data, with_coords, invalid, cursor, gdf_columns, short, counter, used,
      rename_map, gdf>>

InitPath ==
    /\ \E g \in GeometryPathChoices, p \in PopulationPathChoices,
          o \in OutputArgChoices :
          /\ args = MergePathArgs(g, p, o)
          /\ files = [f \in {g, p} |->
                        IF f = g THEN "geometry table" ELSE "population table"]
    /\ pc = "path_load_geometry"
    /\ TablesIdle
    /\ stdout = << >>
    /\ exit_code = Running
    /\ io = << >>
    /\ data = None
    /\ with_coords = 0
    /\ invalid = << >>
    /\ cursor = 0
    /\ gdf_columns = << >>
    /\ short = << >>
    /\ counter = 0
    /\ used = {}
    /\ rename_map = << >>
    /\ gdf = << >>
    /\ result = NoneText

\* 1., 2. the two files are read
PathLoadGeometry ==
    /\ pc = "path_load_geometry"
    /\ io' = Append(io, "read geometry_csv")
    /\ IF args.geometry_csv \in DOMAIN files
       THEN pc' = "path_load_population" /\ Emit("geometries_loaded")
                                         /\ UNCHANGED exit_code
       ELSE Exit("read_error")
    /\ UNCHANGED <<args, files, result>>
    /\ UNCHANGED table_vars
    /\ UNCHANGED path_frame

PathLoadPopulation ==
    /\ pc = "path_load_population"
    /\ io' = Append(io, "read population_csv")
    /\ IF args.population_csv \in DOMAIN files
       THEN pc' = "path_write" /\ Emit("records_loaded") /\ UNCHANGED exit_code
       ELSE Exit("read_error")
    /\ UNCHANGED <<args, files, result>>
    /\ UNCHANGED table_vars
    /\ UNCHANGED path_frame

\* geometry_csv.replace('.csv', '_with_population.geojson') unless a path
\* was given
OutputPath(a) ==
    IF a.output = NoneText
    THEN Replace(a.geometry_csv, DotCsv, WithPopulation)
    ELSE a.output

\* 10. the document is written to the output path, which is returned
PathWrite ==
    /\ pc = "path_write"
    /\ LET output_geojson == OutputPath(args)
       IN  /\ files' = [f \in DOMAIN files \cup {output_geojson} |->
                          IF f = output_geojson THEN "feature collection"
                          ELSE files[f]]
           /\ result' = output_geojson
    /\ io' = Append(io, "write output")
    /\ pc' = "path_done"
    /\ exit_code' = 0
    /\ Emit("saving")
    /\ UNCHANGED args
    /\ UNCHANGED table_vars
    /\ UNCHANGED path_frame

\* create_simplified_geojson(input_csv, output_geojson) of
\* sidelnejednotky_geojson_parser.py, by path.
TempSimple ==
    <<"_", "t", "e", "m", "p", "_", "s", "i", "m", "p", "l", "e", ".", "c", "s", "v">>
SimpleGeojson ==
    <<"_", "s", "i", "m", "p", "l", "e", ".", "g", "e", "o", "j", "s", "o", "n">>

SimpleArgs(input, o) ==
    [program |-> "create_simplified_geojson", input_csv |-> input,
     output_geojson |-> o]

InitSimple ==
    /\ \E input \in GeometryPathChoices, o \in OutputArgChoices :
          /\ args = SimpleArgs(input, o)
          /\ files = [f \in {input} |-> "geometry table"]
    /\ pc = "simple_read"
    /\ TablesIdle
    /\ stdout = << >>
    /\ exit_code = Running
    /\ io = << >>
    /\ data = None
    /\ with_coords = 0
    /\ invalid = << >>
    /\ cursor = 0
    /\ gdf_columns = << >>
    /\ short = << >>
    /\ counter = 0
    /\ used = {}
    /\ rename_map = << >>
    /\ gdf = << >>
    /\ result = NoneText

\* input_csv.replace('.csv', '_temp_simple.csv')
TempPath(a) == Replace(a.input_csv, DotCsv, TempSimple)

\* the given path, or input_csv.replace('.csv', '_simple.geojson')
SimpleOutputPath(a) ==
    IF a.output_geojson = NoneText
    THEN Replace(a.input_csv, DotCsv, SimpleGeojson)
    ELSE a.output_geojson

\* Writing a file: the path exists afterwards and holds the content.
WriteFile(fs, path, content) ==
    [f \in DOMAIN fs \cup {path} |-> IF f = path THEN content ELSE fs[f]]

\* os.remove
RemoveFile(fs, path) == [f \in DOMAIN fs \ {path} |-> fs[f]]

\* pd.read_csv(input_csv) and the choice of the columns kept
SimpleRead ==
    /\ pc = "simple_read"
    /\ io' = Append(io, "read input_csv")
    /\ IF args.input_csv \in DOMAIN files
       THEN pc' = "simple_write_temp" /\ Emit("keeping_columns")
                                      /\ UNCHANGED exit_code
       ELSE Crash("FileNotFoundError")
    /\ UNCHANGED <<args, files, result>>
    /\ UNCHANGED table_vars
    /\ UNCHANGED path_frame

\* df_simple.to_csv(temp_csv)
SimpleWriteTemp ==
    /\ pc = "simple_write_temp"
    /\ files' = WriteFile(files, TempPath(args), "simplified table")
    /\ io' = Append(io, "write temp_csv")
    /\ pc' = "simple_convert"
    /\ UNCHANGED <<args, result, stdout, exit_code>>
    /\ UNCHANGED table_vars
    /\ UNCHANGED path_frame

\* csv_to_geojson(temp_csv, output_geojson): the temporary file is read and
\* the collection is written
SimpleConvert ==
    /\ pc = "simple_convert"
    /\ io' = io \o <<"read temp_csv", "write output">>
    /\ IF TempPath(args) \in DOMAIN files
       THEN /\ files' = WriteFile(files, SimpleOutputPath(args), "feature collection")
            /\ pc' = "simple_remove"
            /\ Emit("saved")
            /\ UNCHANGED exit_code
       ELSE /\ Exit("read_error")
            /\ UNCHANGED files
    /\ UNCHANGED <<args, result>>
    /\ UNCHANGED table_vars
    /\ UNCHANGED path_frame

\* os.remove(temp_csv), return
SimpleRemove ==
    /\ pc = "simple_remove"
    /\ IF TempPath(args) \in DOMAIN files
       THEN /\ files' = RemoveFile(files, TempPath(args))
            /\ result' = SimpleOutputPath(args)
            /\ pc' = "simple_done"
            /\ exit_code' = 0
            /\ UNCHANGED stdout
       ELSE /\ Crash("FileNotFoundError")
            /\ UNCHANGED <<files, result>>
    /\ UNCHANGED <<args, io>>
    /\ UNCHANGED table_vars
    /\ UNCHANGED path_frame

InitPaths == InitPath \/ InitSimple
NextPath ==
    \/ PathLoadGeometry
    \/ PathLoadPopulation
    \/ PathWrite
    \/ SimpleRead
    \/ SimpleWriteTemp
    \/ SimpleConvert
    \/ SimpleRemove

SpecPath == InitPaths /\ [][NextPath]_vars

\* ------------------------------------------------------------ save_layer
\* healthcare.py: save_layer writing an ESRI Shapefile shortens the column
\* names to 10 characters and keeps them distinct.  Names are sequences of
\* characters.
MaxColumns == 3
NameLimit == 10

GeometryName == <<"g", "e", "o", "m", "e", "t", "r", "y">>
TenLetters == <<"a", "b", "c", "d", "e", "f", "g", "h", "i", "j">>

\* Names longer than the limit with the same first 10 characters, names
\* that are what the loop makes of them, a name of 10 characters, a short
\* one, and the geometry column.
ColumnNameChoices ==
    {TenLetters \o <<"_", "x">>,
     TenLetters \o <<"_", "y">>,
     SubSeq(TenLetters, 1, 9) \o <<"1">>,
     TenLetters,
     <<"n">>,
     GeometryName}

\* The lists of distinct names of at most n columns.
RECURSIVE ColumnLists(_)
ColumnLists(n) ==
    IF n = 0 THEN {<< >>}
    ELSE LET shorter == ColumnLists(n - 1)
         IN  shorter \cup
             {Append(l, c) : l \in {x \in shorter : Len(x) = n - 1},
                             c \in ColumnNameChoices}

Distinct(l) == \A a, b \in 1..Len(l) : a # b => l[a] # l[b]

ShpArgs(cols) ==
    [program |-> "save_layer", driver |-> "ESRI Shapefile", columns |-> cols]

InitShp ==
    /\ \E cols \in {l \in ColumnLists(MaxColumns) : Distinct(l)} :
          /\ args = ShpArgs(cols)
          /\ gdf_columns = cols
    /\ pc = "shp_scalars"
    /\ TablesIdle
    /\ stdout = << >>
    /\ exit_code = Running
    /\ io = << >>
    /\ data = None
    /\ with_coords = 0
    /\ invalid = << >>
    /\ cursor = 0
    /\ short = << >>
    /\ counter = 0
    /\ used = {}
    /\ rename_map = << >>
    /\ gdf = << >>
    /\ result = None
    /\ files = << >>

\* what save_layer leaves alone
shp_frame ==
    <<stdout, exit_code, io, args, data, with_coords, invalid, gdf, files>>

DecimalDigits == <<"0", "1", "2", "3", "4", "5", "6", "7", "8", "9">>

\* str(i) for a natural number
RECURSIVE DecStr(_)
DecStr(n) ==
    IF n < 10 THEN <<DecimalDigits[n + 1]>>
    ELSE DecStr(n \div 10) \o <<DecimalDigits[(n % 10) + 1]>>

\* col[:n]
Prefix(col, n) == SubSeq(col, 1, Min(n, Len(col)))

\* the candidate made of the first 10 characters and the number
ShortName_Untrimmed(col, n) == Prefix(col, NameLimit) \o DecStr(n)

\* f"{col[:max(1, 10 - len(str(i)))]}{i}"
ShortName(col, n) ==
    LET digits == DecStr(n)
        room == IF NameLimit - Len(digits) > 1 THEN NameLimit - Len(digits) ELSE 1
    IN  Prefix(col, room) \o digits

\* the values made scalar; rename_map and used start empty
ShpScalars ==
    /\ pc = "shp_scalars"
    /\ rename_map' = << >>
    /\ used' = {}
    /\ cursor' = 0
    /\ pc' = "shp_for"
    /\ UNCHANGED <<gdf_columns, short, counter, result>>
    /\ UNCHANGED shp_frame
    /\ UNCHANGED table_vars

\* for col in columns: the geometry column is passed over, another one gets
\* its first candidate
ShortenBegin ==
    /\ pc = "shp_for"
    /\ cursor < Len(gdf_columns)
    /\ LET col == gdf_columns[cursor + 1]
       IN  IF col = GeometryName
           THEN /\ cursor' = cursor + 1
                /\ UNCHANGED <<pc, short, counter>>
           ELSE /\ short' = Prefix(col, NameLimit)
                /\ counter' = 1
                /\ pc' = "shp_while"
                /\ UNCHANGED cursor
    /\ UNCHANGED <<gdf_columns, used, rename_map, result>>
    /\ UNCHANGED shp_frame
    /\ UNCHANGED table_vars

\* while short in used: the next candidate
ShortenRetry ==
    /\ pc = "shp_while"
    /\ short \in used
    /\ short' = ShortName(gdf_columns[cursor + 1], counter)
    /\ counter' = counter + 1
    /\ UNCHANGED <<pc, cursor, gdf_columns, used, rename_map, result>>
    /\ UNCHANGED shp_frame
    /\ UNCHANGED table_vars

\* the candidate is free: it is noted for the rename when it differs from
\* the name, and is used from now on
ShortenAssign ==
    /\ pc = "shp_while"
    /\ short \notin used
    /\ LET col == gdf_columns[cursor + 1]
       IN  rename_map' = IF short # col
                         THEN [c \in DOMAIN rename_map \cup {col} |->
                                 IF c = col THEN short ELSE rename_map[c]]
                         ELSE rename_map
    /\ used' = used \cup {short}
    /\ cursor' = cursor + 1
    /\ pc' = "shp_for"
    /\ UNCHANGED <<gdf_columns, short, counter, result>>
    /\ UNCHANGED shp_frame
    /\ UNCHANGED table_vars

\* gdf.rename(columns=rename_map), to_file, return
ShpWrite ==
    /\ pc = "shp_for"
    /\ cursor = Len(gdf_columns)
    /\ gdf_columns' = [k \in 1..Len(gdf_columns) |->
                         IF gdf_columns[k] \in DOMAIN rename_map
                         THEN rename_map[gdf_columns[k]] ELSE gdf_columns[k]]
    /\ result' = "filepath"
    /\ pc' = "shp_done"
    /\ UNCHANGED <<cursor, short, counter, used, rename_map>>
    /\ UNCHANGED shp_frame
    /\ UNCHANGED table_vars

NextShp ==
    \/ ShpScalars
    \/ ShortenBegin
    \/ ShortenRetry
    \/ ShortenAssign
    \/ ShpWrite

SpecShp == InitShp /\ [][NextShp]_vars
\* The interpreter goes on as long as there is a statement to run.
FairSpecShp == SpecShp /\ WF_vars(NextShp)

\* ------------------------------------------------- count_healthcare_nearby
\* healthcare.py: count_healthcare_nearby asks OSM for the elements around
\* a point and counts them.  An element is a row with its osmid and its
\* amenity and healthcare tags (None where the tag is missing).
MaxElements == 2

OsmIds == {1, 2}

\* the tags of the elements the query returns: an amenity of the list, or
\* any healthcare tag
TagChoices ==
    {[amenity |-> "hospital", healthcare |-> None],
     [amenity |-> "pharmacy", healthcare |-> None],
     [amenity |-> None, healthcare |-> "pharmacy"],
     [amenity |-> None, healthcare |-> "Pharmacy"],
     [amenity |-> "clinic", healthcare |-> "clinic"]}

ElementChoices ==
    {[osmid |-> o, amenity |-> t.amenity, healthcare |-> t.healthcare] :
        o \in OsmIds, t \in TagChoices}

RECURSIVE ElementLists(_)
ElementLists(n) ==
    IF n = 0 THEN {<< >>}
    ELSE LET shorter == ElementLists(n - 1)
         IN  shorter \cup
             {Append(l, e) : l \in {x \in shorter : Len(x) = n - 1},
                             e \in ElementChoices}

\* the columns of the frame: a column for each tag some element has, and
\* osmid when it is a column and not the index
FrameColumns(rows, osmid_column) ==
    {c \in {"amenity", "healthcare"} : \E k \in 1..Len(rows) : rows[k][c] # None}
       \cup (IF osmid_column THEN {"osmid"} ELSE {})

HcArgs(breakdown, details) ==
    [program |-> "count_healthcare_nearby", breakdown |-> breakdown,
     details |-> details]

InitHc ==
    /\ \E breakdown, details \in BOOLEAN : args = HcArgs(breakdown, details)
    /\ pc = "hc_query"
    /\ TablesIdle
    /\ stdout = << >>
    /\ exit_code = Running
    /\ io = << >>
    /\ AuxIdle

\* what count_healthcare_nearby leaves alone
hc_frame ==
    <<stdout, exit_code, io, args, data, with_coords, invalid, cursor,
      gdf_columns, short, counter, used, rename_map, files>>

\* str(x).lower()
Lower(v) == IF v = "Pharmacy" THEN "pharmacy" ELSE v

_is_pharmacy_value(v) == IF v = None THEN FALSE ELSE Lower(v) = "pharmacy"

_row_is_pharmacy(columns, row) ==
    \E col \in {"amenity", "healthcare"} \cap columns : _is_pharmacy_value(row[col])

\* gdf["osmid"].nunique() if osmid is a column, else len(gdf)
UniqueCount(frame) ==
    IF "osmid" \in frame.columns
    THEN Cardinality({frame.rows[k].osmid : k \in 1..Len(frame.rows)})
    ELSE Len(frame.rows)

\* the elements around the point; nothing found is answered at once
HcQuery ==
    /\ pc = "hc_query"
    /\ \E rows \in ElementLists(MaxElements), osmid_column \in BOOLEAN :
          /\ gdf' = [columns |-> FrameColumns(rows, osmid_column), rows |-> rows]
          /\ IF rows = << >>
             THEN /\ result' = IF args.details \/ args.breakdown THEN << >> ELSE 0
                  /\ pc' = "hc_done"
             ELSE /\ pc' = "hc_exclude"
                  /\ UNCHANGED result
    /\ UNCHANGED hc_frame
    /\ UNCHANGED table_vars

\* gdf = gdf.loc[~mask]
HcExclude ==
    /\ pc = "hc_exclude"
    /\ gdf' = [gdf EXCEPT !.rows =
                 SelectSeq(gdf.rows, LAMBDA row : ~_row_is_pharmacy(gdf.columns, row))]
    /\ pc' = "hc_return"
    /\ UNCHANGED result
    /\ UNCHANGED hc_frame
    /\ UNCHANGED table_vars

\* a tag the element does not have; every element has its osmid
Missing(row, col) == col # "osmid" /\ row[col] = None

\* the tags of a row that are present
TagsPresent(columns, row) ==
    [c \in {c \in columns : ~Missing(row, c)} |-> row[c]]

\* details: one entry for each row
HcDetails ==
    /\ pc = "hc_return"
    /\ args.details
    /\ result' = [k \in 1..Len(gdf.rows) |->
                    [osmid |-> IF "osmid" \in gdf.columns THEN gdf.rows[k].osmid ELSE None,
                     tags |-> TagsPresent(gdf.columns, gdf.rows[k])]]
    /\ pc' = "hc_done"
    /\ UNCHANGED gdf
    /\ UNCHANGED hc_frame
    /\ UNCHANGED table_vars

\* the number of elements
HcCount ==
    /\ pc = "hc_return"
    /\ ~args.details
    /\ ~args.breakdown
    /\ result' = UniqueCount(gdf)
    /\ pc' = "hc_done"
    /\ UNCHANGED gdf
    /\ UNCHANGED hc_frame
    /\ UNCHANGED table_vars

\* the number of values of a column that are not missing
ValueCount(frame, col) ==
    Cardinality({k \in 1..Len(frame.rows) : ~Missing(frame.rows[k], col)})

\* breakdown: for each column with a value the number of its values, and
\* the number of elements under "__total__"
HcBreakdown ==
    /\ pc = "hc_return"
    /\ ~args.details
    /\ args.breakdown
    /\ LET with_values == {c \in gdf.columns : ValueCount(gdf, c) > 0}
       IN  result' = [c \in with_values \cup {"__total__"} |->
                        IF c = "__total__" THEN UniqueCount(gdf)
                        ELSE ValueCount(gdf, c)]
    /\ pc' = "hc_done"
    /\ UNCHANGED gdf
    /\ UNCHANGED hc_frame
    /\ UNCHANGED table_vars

NextHc ==
    \/ HcQuery
    \/ HcExclude
    \/ HcDetails
    \/ HcCount
    \/ HcBreakdown

SpecHc == InitHc /\ [][NextHc]_vars

\* ------------------------------------------------------------ the claims
Tags == {stdout[i] : i \in 1..Len(stdout)}
LoopFinished ==
    \/ pc = "loop" /\ idx = Len(df_merged)
    \/ pc \in {"write", "statistics", "done"}
Normalized == pc \in {"join", "guard", "loop", "write", "statistics", "done"}
Joined == pc \in {"guard", "loop", "write", "statistics", "done"}
ParsableWkt == {"POLYGON", "MULTIPOLYGON", "POINT", "LINESTRING", "POLYGON_FAR"}
TextKeys == {"zsj_nazov", "okres_nazov", "obec_nazov"}
PropertyKeys == {"zsj_kod"} \cup TextKeys \cup CountColumns

\* C1: when the feature loop has finished, the features emitted plus the rows
\* skipped for missing geometry plus the rows skipped on error are as many
\* as the rows of the geometry input table.
C1_CountsSumToGeometryRows ==
    LoopFinished =>
        Len(features) + no_geom + errors = Len(geometry_csv.rows)

\* C2: the joined table has exactly one row per row of the geometry table.
C2_JoinPreservesCardinality ==
    Joined => Len(df_merged) = Len(geometry_csv.rows)

\* C3: once the matched count is computed and is 0 (as it is when no short
\* key equals a population code), the run prints the sample keys and ends
\* with a non-zero status, no joined row has been taken and the output file
\* is as it was.
C3_ZeroMatchAborts ==
    /\ ("matched" \in Tags /\ matched = 0 /\ pc # "guard") =>
          /\ pc = "exit"
          /\ exit_code # 0 /\ exit_code # Running
          /\ stdout[Len(stdout)] = "sample_keys"
          /\ idx = 0 /\ features = << >> /\ errors = 0 /\ no_geom = 0
          /\ output.kind # "geojson"
    /\ (pc = "guard" \/ "sample_keys" \in Tags) =>
          (idx = 0 /\ output.kind # "geojson")
    /\ ("matched" \in Tags
          /\ \A g \in 1..Len(df_geom.rows), p \in 1..Len(df_pop.rows) :
               df_geom.rows[g].zsj_kod_short # df_pop.rows[p].code) =>
          matched = 0

\* C3 witness: a run with rows in both tables ended by the guard.
C3_Witness ==
    /\ pc = "exit"
    /\ "sample_keys" \in Tags
    /\ Len(df_geom.rows) > 0
    /\ Len(df_pop.rows) > 0
    /\ output = OldFile

\* C4: after the guard every joined row taken so far is a feature or is
\* counted once in no_geom (missing WKT) or in errors (anything that
\* raises), and the run goes on to the Write step.
C4_RowFailuresNeverAbort ==
    LET taken == 1..idx
        missing == {i \in taken : geom_column \in df_geom.columns
                                    /\ df_merged[i].geom = WktMissing}
        good == {i \in taken : /\ geom_column \in df_geom.columns
                               /\ df_merged[i].geom \in ParsableWkt
                               /\ \A c \in CountColumns : df_merged[i][c] # BadCount}
    IN  /\ "transforming" \in Tags =>
              /\ no_geom = Cardinality(missing)
              /\ Len(features) = Cardinality(good)
              /\ errors = idx - Cardinality(missing) - Cardinality(good)
        /\ ("transforming" \in Tags /\ pc \in {"exit", "crash"}) =>
              "summary" \in Tags

C7_MatchedCountsKeyMatches ==
    LET G == df_geom.rows
        P == df_pop.rows
        keyed == {g \in 1..Len(G) : \E p \in 1..Len(P) : P[p].code = G[g].zsj_kod_short}
        of(g) == {i \in 1..Len(features) : df_merged[feature_rows[i]].g = g}
        pre == /\ \A g \in 1..Len(geometry_csv.rows) :
                     geometry_csv.rows[g].geom \in ParsableWkt
               /\ \A p, q \in 1..Len(population_csv.rows) :
                     p # q => population_csv.rows[p].code # population_csv.rows[q].code
    IN  pre =>
          /\ "matched" \in Tags => matched = Cardinality(keyed)
          /\ pc = "done" =>
               \A g \in 1..Len(G) :
                  /\ Cardinality(of(g)) = 1
                  /\ \A i \in of(g) :
                       \A c \in CountColumns :
                          LET v == IF g \in keyed
                                   THEN P[CHOOSE p \in 1..Len(P) :
                                            P[p].code = G[g].zsj_kod_short][c]
                                   ELSE 0
                          IN  features[i].properties[c] = IF v = NaNCount THEN 0 ELSE v

\* C8: in every feature built each of the four counts is there and is a
\* natural number, the joined value when there is one and 0 when it is
\* NaN; each name is a string or None.
C8_PropertiesTyped ==
    \A i \in 1..Len(features) :
       LET props == features[i].properties
           row == df_merged[feature_rows[i]]
       IN  /\ CountColumns \subseteq DOMAIN props
           /\ \A c \in CountColumns :
                 /\ props[c] \in Nat
                 /\ props[c] = IF row[c] = NaNCount THEN 0 ELSE row[c]
           /\ \A k \in TextKeys : props[k] # NaN

\* C9: every feature built, and every feature written, has the same eight
\* property keys.
C9_FixedPropertyKeys ==
    /\ \A i \in 1..Len(features) :
          DOMAIN features[i].properties = PropertyKeys
    /\ output.kind = "geojson" =>
          \A i \in 1..Len(output.features) :
             DOMAIN output.features[i].properties = PropertyKeys

\* C9 witness: a written collection with a feature of a matched row and a
\* feature of an unmatched row.
C9_Witness ==
    /\ pc = "done"
    /\ output.kind = "geojson"
    /\ \E i, j \in 1..Len(output.features) :
          /\ df_merged[feature_rows[i]].p # 0
          /\ df_merged[feature_rows[j]].p = 0

C11_UnreadableInputExits ==
    LET nothing_later ==
            /\ pc = "exit"
            /\ exit_code = 1
            /\ geom_code_col = None
            /\ df_merged = << >> /\ idx = 0 /\ features = << >>
            /\ output.kind # "geojson"
            /\ "write output" \notin {io[i] : i \in 1..Len(io)}
    IN  /\ (~geometry_csv.readable /\ pc # "load_geometry") =>
              /\ nothing_later
              /\ io = <<"read geometry_csv">>
              /\ df_geom = EmptyFrame /\ df_pop = EmptyFrame
        /\ (geometry_csv.readable /\ ~population_csv.readable
              /\ pc \notin {"load_geometry", "load_population"}) =>
              /\ nothing_later
              /\ df_pop = EmptyFrame

\* C11 witness: the geometry file was unreadable, the population file was
\* not, and the run has ended leaving the old output file.
C11_Witness ==
    /\ pc = "exit"
    /\ ~geometry_csv.readable
    /\ population_csv.readable
    /\ output = OldFile

\* C12: when the identifier column, the geometry column or the population
\* code column is missing, the run does not finish with status 0 and writes
\* no output file.
C12_MissingColumnAborts ==
    (/\ geometry_csv.readable /\ population_csv.readable
     /\ \/ \A i \in 1..Len(CodeCandidates) : CodeCandidates[i] \notin geometry_csv.header
        \/ geom_column \notin geometry_csv.header
        \/ "zsj_kod" \notin population_csv.header) =>
       /\ output.kind # "geojson"
       /\ exit_code # 0

\* The place of a position in the pass: Load, Normalize, Join, the loop,
\* Write, the end.
Rank(p) ==
    CASE p = "load_geometry" -> 1
      [] p = "load_population" -> 2
      [] p = "identify_columns" -> 3
      [] p = "normalize" -> 4
      [] p = "join" -> 5
      [] p = "guard" -> 6
      [] p = "loop" -> 7
      [] p = "write" -> 8
      [] p = "statistics" -> 9
      [] p \in {"done", "exit", "crash"} -> 10

\* C13: every step moves to a later position of the pass, except the loop
\* taking its next row; the tables of a phase do not change once the next
\* phase has begun; the output file is opened at most once, and only when
\* every joined row is a feature or has been skipped.
C13_LinearPass ==
    /\ [][/\ \/ Rank(pc') > Rank(pc)
             \/ pc = "loop" /\ pc' = "loop" /\ idx' = idx + 1
          /\ Rank(pc) >= Rank("join") => UNCHANGED <<df_geom, df_pop>>
          /\ Rank(pc) >= Rank("guard") => UNCHANGED df_merged
          /\ Rank(pc) >= Rank("write") => UNCHANGED <<features, errors, no_geom, idx>>]_vars
    /\ [](/\ Cardinality({i \in 1..Len(io) : io[i] = "write output"}) <= 1
          /\ output.kind = "geojson" =>
                /\ idx = Len(df_merged)
                /\ Len(features) + no_geom + errors = Len(df_merged)
                /\ io = <<"read geometry_csv", "read population_csv", "write output">>)

\* C13 witness: a finished run over several joined rows, one of them
\* skipped, with the three files touched once each and in order.
C13_Witness ==
    /\ pc = "done"
    /\ Len(df_merged) >= 2
    /\ errors + no_geom >= 1
    /\ Len(features) >= 1
    /\ io = <<"read geometry_csv", "read population_csv", "write output">>

\* C14 as claimed: every collection written, by either converter and with
\* any EPSG arguments, is tagged as WGS84.
C14_CrsIsWgs84 ==
    output.kind = "geojson" => output.crs = "urn:ogc:def:crs:EPSG::4326"

\* C14 amended: a collection written by merge_and_convert is tagged as
\* EPSG 4326 whatever the source EPSG; one written by csv_to_geojson is
\* tagged with its target EPSG, which is 4326 unless overridden.
C14_CrsNamesTarget ==
    output.kind = "geojson" =>
       IF args.program = "merge_population_data"
       THEN output.crs = "urn:ogc:def:crs:EPSG::4326"
       ELSE /\ args.target_epsg = DefaultTargetEpsg =>
                 output.crs = "urn:ogc:def:crs:EPSG::4326"
            /\ args.target_epsg = 3857 => output.crs = "urn:ogc:def:crs:EPSG::3857"
            /\ args.target_epsg = DefaultSourceEpsg =>
                 output.crs = "urn:ogc:def:crs:EPSG::5514"

\* C14 witness: csv_to_geojson has written features with both EPSG codes
\* overridden.
C14_Witness ==
    /\ pc = "csv_done"
    /\ args.source_epsg = DefaultTargetEpsg
    /\ args.target_epsg = 3857
    /\ output.kind = "geojson"
    /\ Len(output.features) >= 1

\* The name the joined row holds in a population column: missing when the
\* geometry table has a column of that name too.
JoinedName(i, col) ==
    IF col \in geometry_csv.header THEN NaN ELSE df_merged[i][col]
Fallbacks == {<<"zsj_nazov", "nazov_zsj">>, <<"okres_nazov", "nazov_okre">>}
FallsBack(k, f) ==
    /\ JoinedName(feature_rows[k], f[1]) = NaN
    /\ f[2] \in geometry_csv.header
    /\ df_merged[feature_rows[k]][f[2]] # NaN
KeepsName(k, f) ==
    /\ JoinedName(feature_rows[k], f[1]) # NaN
    /\ f[2] \in geometry_csv.header
    /\ df_merged[feature_rows[k]][f[2]] # NaN

C16_MissingAlternateIsNull ==
    /\ \A k \in 1..Len(features) : \A f \in Fallbacks :
          (/\ JoinedName(feature_rows[k], f[1]) = NaN
           /\ \/ f[2] \notin geometry_csv.header
              \/ df_merged[feature_rows[k]][f[2]] = NaN)
          => features[k].properties[f[1]] = None
    /\ "ValueError" \notin Tags

\* A cell of the file without the blanks around it.
IsCode(c) == Len(c) = KeyWidth /\ \A k \in 1..Len(c) : c[k] \in Digits
EndsWith(id, c) ==
    /\ Len(id) >= Len(c)
    /\ \A k \in 1..Len(c) : id[Len(id) - Len(c) + k] = c[k]
HasLetter(id) == \E k \in 1..Len(id) : id[k] \notin Digits

\* C17 as claimed: a population code of 7 digits, one that begins with 0
\* or is padded with blanks included, is normalized to the short key of
\* every geometry identifier that ends with it (the identifiers taken here
\* are those with a letter), and that geometry row is joined to the record.
C17_PopulationKeyJoins ==
    Joined =>
      \A p \in 1..Len(population_csv.rows) : \A g \in 1..Len(geometry_csv.rows) :
         LET code == Strip(population_csv.rows[p].code)
             id == Strip(geometry_csv.rows[g].code)
         IN  (IsCode(code) /\ HasLetter(id) /\ EndsWith(id, code)) =>
                /\ df_pop.rows[p].code = df_geom.rows[g].zsj_kod_short
                /\ \E m \in 1..Len(df_merged) :
                      df_merged[m].g = g /\ df_merged[m].p = p

\* C18 as claimed: a geometry row whose identifier cell is empty raises no
\* error and is joined to no population record, whatever the population
\* table holds, a record with an empty code cell included.
C18_MissingIdentifierUnmatched ==
    /\ pc # "crash"
    /\ Joined =>
         \A m \in 1..Len(df_merged) :
            geometry_csv.rows[df_merged[m].g].code = << >> =>
               /\ df_merged[m].p = 0
               /\ df_merged[m].pop_total = NaNCount

\* C19: when two or more geometry rows have the same short key and one
\* population record has it, every such row is joined to that record once,
\* and every such row with a parsable geometry (the counts of the record
\* being numbers) gives one feature with the code, the municipality and
\* the four counts of that record.
C19_DuplicateKeysShareRecord ==
    LoopFinished =>
      \A p \in 1..Len(df_pop.rows) :
         LET rec == population_csv.rows[p]
             dup == {g \in 1..Len(df_geom.rows) :
                       df_geom.rows[g].zsj_kod_short = df_pop.rows[p].code}
             joined(g) == {m \in 1..Len(df_merged) : df_merged[m].g = g}
             of(g) == {i \in 1..Len(features) : df_merged[feature_rows[i]].g = g}
         IN  (/\ \A q \in 1..Len(df_pop.rows) :
                    q # p => df_pop.rows[q].code # df_pop.rows[p].code
              /\ Cardinality(dup) >= 2) =>
               \A g \in dup :
                  /\ Cardinality(joined(g)) = 1
                  /\ \A m \in joined(g) : df_merged[m].p = p
                  /\ (/\ geometry_csv.rows[g].geom \in ParsableWkt
                      /\ \A c \in CountColumns : rec[c] # BadCount) =>
                        /\ Cardinality(of(g)) = 1
                        /\ \A i \in of(g) :
                              /\ features[i].properties.zsj_kod = df_pop.rows[p].code
                              /\ features[i].properties.obec_nazov =
                                    (IF rec.obec_nazov = NaN THEN None ELSE rec.obec_nazov)
                              /\ \A c \in CountColumns :
                                    features[i].properties[c] =
                                       (IF rec[c] = NaNCount THEN 0 ELSE rec[c])

\* C19 witness: two geometry rows with the key of the one population
\* record, both written with its total.
C19_Witness ==
    /\ pc = "done"
    /\ Len(population_csv.rows) = 1
    /\ Len(geometry_csv.rows) = 2
    /\ geometry_csv.rows[1].code = geometry_csv.rows[2].code
    /\ output.kind = "geojson"
    /\ Len(output.features) = 2
    /\ \A i \in 1..2 : output.features[i].properties.pop_total = 4

C21_ProgressEveryBatch ==
    pc = "loop" =>
       Cardinality({i \in 1..Len(stdout) : stdout[i] = "progress"})
          = idx \div ProgressEvery

\* C22: over a collection of points and features without geometry, the
\* features reported invalid are exactly those with a geometry whose
\* latitude is outside [-90, 90] or whose longitude is outside [-180, 180];
\* a feature without geometry is counted as without coordinates and not
\* reported; once the report is printed it has the all-valid message
\* exactly when nothing was reported.
C22_InvalidIffOutOfRange ==
    pc \in {"val_loop", "val_done", "crash"} =>
       LET F == data.features
           taken == 1..cursor
           has(k) == F[k].geometry.type # "null"
           out(k) == \/ F[k].geometry.coordinates[2] < -90
                     \/ F[k].geometry.coordinates[2] > 90
                     \/ F[k].geometry.coordinates[1] < -180
                     \/ F[k].geometry.coordinates[1] > 180
           bad == {k \in taken : has(k) /\ out(k)}
       IN  /\ Len(invalid) = Cardinality(bad)
           /\ \A k \in bad : \E j \in 1..Len(invalid) :
                 /\ invalid[j].lon = F[k].geometry.coordinates[1]
                 /\ invalid[j].lat = F[k].geometry.coordinates[2]
           /\ with_coords = Cardinality({k \in taken : has(k)})
           /\ Len(F) - with_coords >= Cardinality({k \in taken : ~has(k)})
           /\ "totals" \in Tags =>
                 /\ cursor = Len(F)
                 /\ "all_valid" \in Tags <=> bad = {}
                 /\ "invalid_entries" \in Tags <=> bad # {}

\* C22 witness: the report of a collection with a feature without geometry
\* and a point on the edge of the ranges next to it is all valid.
C22_Witness ==
    /\ pc = "val_done"
    /\ Len(data.features) = 2
    /\ data.features[1].geometry.type = "null"
    /\ data.features[2].geometry.coordinates = <<180, 90>>
    /\ with_coords = 1
    /\ "all_valid" \in Tags

\* C23 as claimed: the guard ends the run only when no short key of the
\* geometry table is a code of the population table, whatever the other
\* population columns hold.
C23_GuardAbortsOnlyWithoutMatch ==
    "sample_keys" \in Tags =>
       \A g \in 1..Len(df_geom.rows) : \A p \in 1..Len(df_pop.rows) :
          df_geom.rows[g].zsj_kod_short # df_pop.rows[p].code

\* C24: the features are in the order of the geometry rows they were built
\* from, each with the geometry of its row, whatever rows were skipped in
\* between, and the collection written holds them in that order.
C24_FeatureOrderPreserved ==
    LET g(i) == df_merged[feature_rows[i]].g
    IN  /\ \A i, j \in 1..Len(features) : i < j => g(i) <= g(j)
        /\ \A i \in 1..Len(features) :
              /\ features[i].geometry.type = Geometry(geometry_csv.rows[g(i)].geom).type
              /\ features[i].properties.zsj_kod = ShortKey(Strip(geometry_csv.rows[g(i)].code))
        /\ pc \in {"statistics", "done"} =>
              (output.kind = "geojson" /\ output.features = features)

\* C24 witness: the middle row of three was skipped and the collection
\* written has the first row's polygon before the third row's multipolygon.
C24_Witness ==
    /\ pc = "done"
    /\ Len(geometry_csv.rows) = 3
    /\ geometry_csv.rows[1].geom = "POLYGON"
    /\ geometry_csv.rows[2].geom = WktMissing
    /\ geometry_csv.rows[3].geom = "MULTIPOLYGON"
    /\ Len(output.features) = 2
    /\ output.features[1].geometry.type = "Polygon"
    /\ output.features[2].geometry.type = "MultiPolygon"

\* C25 as claimed: when no output path is given, the path written differs
\* from both input paths and both input files are as they were, whatever
\* the geometry path is.
C25_OutputPathIsNew ==
    (pc = "path_done" /\ args.output = NoneText) =>
       /\ result # args.geometry_csv
       /\ result # args.population_csv
       /\ files[args.geometry_csv] = "geometry table"
       /\ files[args.population_csv] = "population table"

\* C26 as claimed: the temporary path differs from the input path for
\* every input path; the input file stays there with its content all
\* along, and after the return the temporary file is gone.
C26_SimplifiedKeepsInput ==
    args.program = "create_simplified_geojson" =>
       /\ args.input_csv \in DOMAIN files
       /\ files[args.input_csv] = "geometry table"
       /\ pc \in {"simple_convert", "simple_remove", "simple_done"} =>
             TempPath(args) # args.input_csv
       /\ pc = "simple_done" => TempPath(args) \notin DOMAIN files

\* C27 as claimed: the validator, run on a collection merge_and_convert has
\* written, ends without an uncaught error.
C27_ValidatorCompletes ==
    args.program = "validate_coords" => pc # "crash"

\* C28: in csv_to_geojson every row taken so far is either a feature or
\* counted once in errors, a row with a missing geometry being an error, so
\* that after the loop features plus errors is the number of rows read;
\* every feature has exactly one property for each column but the
\* geometry, null where the cell is missing and the value otherwise.
C28_CsvRowsAccounted ==
    (args.program = "csv_to_geojson"
       /\ pc \in {"csv_loop", "csv_write", "csv_done", "crash"}) =>
       LET R == geometry_csv.rows
           failed == {r \in 1..idx : R[r].geom \in {WktMissing, WktGarbage}}
       IN  /\ Len(features) + errors = idx
           /\ errors = Cardinality(failed)
           /\ pc # "csv_loop" => idx = Len(R)
           /\ \A k \in 1..Len(features) :
                 LET props == features[k].properties
                     row == R[feature_rows[k]]
                 IN  /\ feature_rows[k] \notin failed
                     /\ DOMAIN props = geometry_csv.header \ {"geom"}
                     /\ \A col \in DOMAIN props \cap {"nazov_zsj", "nazov_okre"} :
                           props[col] = (IF row[col] = NaN THEN None ELSE row[col])
                     /\ \A col \in DOMAIN props \ {"nazov_zsj", "nazov_okre"} :
                           props[col] # NoneText /\ props[col] # NaNText

\* C28 witness: a finished conversion of two rows, one without geometry
\* and one that became a feature with a name and a null.
C28_Witness ==
    /\ pc = "csv_done"
    /\ Len(geometry_csv.rows) = 2
    /\ errors = 1
    /\ Len(features) = 1
    /\ features[1].properties.nazov_zsj = None
    /\ features[1].properties.nazov_okre = "Bratislava I"

\* C29: save_layer writing a Shapefile gets through the shortening of every
\* list of distinct column names, and then every column but the geometry
\* has a name of at most 10 characters, no two of them the same, a column
\* whose name was short enough and not given to an earlier column having
\* kept it.
C29_ShortNamesDistinct ==
    /\ <>(pc = "shp_done")
    /\ [](pc = "shp_done" =>
            LET old == args.columns
                other == {k \in 1..Len(gdf_columns) : old[k] # GeometryName}
            IN  /\ Len(gdf_columns) = Len(old)
                /\ \A k \in other : Len(gdf_columns[k]) <= 10
                /\ \A k, j \in other : k # j => gdf_columns[k] # gdf_columns[j]
                /\ \A k \in other :
                      (/\ Len(old[k]) <= 10
                       /\ \A j \in other : j < k => gdf_columns[j] # old[k])
                      => gdf_columns[k] = old[k]
                /\ \A k \in 1..Len(old) :
                      old[k] = GeometryName => gdf_columns[k] = GeometryName)

\* C29 witness: three columns with the same first 10 characters, or named
\* like a name the loop had given, came out under three names.
C29_Witness ==
    /\ pc = "shp_done"
    /\ args.columns = <<TenLetters \o <<"_", "x">>, TenLetters \o <<"_", "y">>,
                        SubSeq(TenLetters, 1, 9) \o <<"1">>>>
    /\ gdf_columns[1] = TenLetters
    /\ gdf_columns[2] = SubSeq(TenLetters, 1, 9) \o <<"1">>
    /\ gdf_columns[3] = SubSeq(TenLetters, 1, 9) \o <<"2">>

\* C30: count_healthcare_nearby counts the pharmacies with the hospitals,
\* clinics and doctors: every element the query returned with a pharmacy
\* tag is among the elements counted, and the count, the breakdown's total
\* and the details list cover all the elements held.
C30_PharmaciesCounted ==
    [][/\ pc = "hc_exclude" =>
            \A k \in 1..Len(gdf.rows) :
               _row_is_pharmacy(gdf.columns, gdf.rows[k]) =>
                  \E j \in 1..Len(gdf'.rows) : gdf'.rows[j] = gdf.rows[k]
       /\ (pc = "hc_return" /\ ~args.details /\ ~args.breakdown) =>
            result' = UniqueCount(gdf)
       /\ (pc = "hc_return" /\ ~args.details /\ args.breakdown) =>
            result'["__total__"] = UniqueCount(gdf)
       /\ (pc = "hc_return" /\ args.details) =>
            Len(result') = Len(gdf.rows)]_vars

====
